---------------------------- MODULE Spec2Model ----------------------------
(***************************************************************************)
(* Model of patch_rebaser.patch_rebaser: the Rebaser class                 *)
(* (rebase_and_update_remote, perform_rebase, try_automated_rebase_fix,    *)
(* update_remote_patches_branch) acting on a local repository and a remote *)
(* that another actor may push to at any time; find_patches_branch;        *)
(* get_release_from_branch_name; and main, which resolves the patches      *)
(* branch, creates it when asked to, and otherwise runs the Rebaser.       *)
(*                                                                         *)
(* Commits are numbers.  0..MaxExternalPushes are the commits that reach   *)
(* the remote branch from outside; Rebased(c) is the tip obtained by       *)
(* rebasing a branch that was at c onto self.commit.                       *)
(***************************************************************************)
EXTENDS Integers, Sequences, FiniteSets, TLC

\* ----------------------------------------------------------------- bounds
MaxRetries == 2
MaxExternalPushes == 3
MaxRebaseExceptions == 2
MaxSegments == 3

\* ------------------------------------------------------ program constants
BackOff == 20
RebasedOffset == 100
NoCommit == -1

VARIABLES
    self,            \* the Rebaser instance's fields
    initial_retries, \* max_retries as passed to __init__
    pc,              \* position of the innermost frame of the job
    depth,           \* number of nested rebase_and_update_remote frames - 1
    log,             \* calls made on the collaborators, in order
    attempts,        \* number of perform_rebase calls
    sames,           \* results of commit.same, in order
    cherries,        \* results of the ahead-check, in order (TRUE: non-empty)
    error,           \* the exception that ended the job, "none" otherwise
    exc,             \* the RebaseException being handled in perform_rebase
    rebase_exceptions, \* RebaseExceptions raised so far
    waited,          \* total time slept
    remote_tip,      \* tip of the branch in the remote repository
    remote_tags,     \* tags in the remote repository: name -> commit
    tracking,        \* remote/branch in the local repository
    local_branch,    \* the local branch's tip
    tag,             \* the commit of the local safety tag, NoCommit if absent
    rebasing,        \* a rebase is stopped in progress in the local repository
    external_pushes, \* pushes made by other actors so far
    initial_tip,     \* remote_tip when the job started
    twin,            \* the calls of the same run with dev_mode negated
    logged,          \* LOGGER calls, in order
    remote_contains, \* whether remote/branch contains self.commit
    distgit_branch,  \* find_patches_branch: the identifier, split on '-'
    parts,           \* find_patches_branch: the segments still tried
    existing,        \* the branches that exist on the remote
    checks,          \* the candidates passed to repo.branch.exists, in order
    patches_branch,  \* the value find_patches_branch returned
    release,         \* the release argument of __init__, None when omitted
    config,          \* main: the options read from patch_rebaser.ini
    remotes,         \* the remotes of the local repository: <<name, url>>
    patches_repo,    \* main: the URL get_patches_repo returned
    branch_name      \* a branch name, split on '-'

vars == <<self, initial_retries, pc, depth, log, attempts, sames, cherries,
          error, exc, rebase_exceptions, waited, remote_tip, remote_tags,
          tracking, local_branch, tag, rebasing, external_pushes,
          initial_tip, twin, logged, remote_contains, distgit_branch,
          parts, existing, checks, patches_branch, release, config,
          remotes, patches_repo, branch_name>>

\* what main keeps besides the Rebaser
caller == <<config, remotes, patches_repo, branch_name>>

resolver == <<distgit_branch, parts, existing, checks, patches_branch>>

\* what no step of the Rebaser writes
frame == <<initial_tip, remote_contains, resolver, release, caller>>

git == <<remote_tip, remote_tags, tracking, local_branch, tag, rebasing>>

\* ------------------------------------------------------------ collaborators
Call(op, args) == [op |-> op, args |-> args]

Rebased(c) == IF c >= RebasedOffset THEN c ELSE c + RebasedOffset

\* git cherry remote/branch branch: the commits only on the local branch
cherry_on_head_only(upstream, head) == IF head = upstream THEN {} ELSE {head}

\* commit.same(tag, remote/branch)
same(c1, c2) == c1 = c2

Contains_always(msg, word) == TRUE

\* '.gitreview' in str(exception), the message taken word by word
Contains(msg, word) == \E i \in 1..Len(msg) : msg[i] = word

GitreviewMessage == <<".gitreview", "failed", "to", "rebase">>
OtherMessage == <<"Whatever", "other", "exception">>
NoException == <<>>

\* -------------------------------------------------------- Rebaser.__init__
None == "None"

\* def __init__(..., release='unknown')
DefaultRelease(rel) == IF rel = None THEN "unknown" ELSE rel

TagName_release_left_out(rel, timestamp) ==
    IF rel = "unknown"
    THEN "private-rebaser-" \o timestamp \o "-previous"
    ELSE "private-rebaser-" \o rel \o "-" \o timestamp \o "-previous"

TagName(rel, timestamp) ==
    "private-rebaser-" \o rel \o "-" \o timestamp \o "-previous"

RemoteBranch(remote, branch) == remote \o "/" \o branch

Rebaser(branch, commit, remote, timestamp, dev_mode, max_retries, rel) ==
    [repo          |-> "repo",
     branch        |-> branch,
     commit        |-> commit,
     remote        |-> remote,
     timestamp     |-> timestamp,
     tag_name      |-> TagName(rel, timestamp),
     dev_mode      |-> dev_mode,
     max_retries   |-> max_retries,
     remote_branch |-> RemoteBranch(remote, branch)]

\* defaults = {...}: the options of main when patch_rebaser.ini sets none
Defaults ==
    [remote_name           |-> "remote_name",
     dev_mode              |-> TRUE,
     create_patches_branch |-> FALSE,
     packages_to_process   |-> {}]

\* main has not run: the Rebaser is constructed directly
NoCaller ==
    /\ config = Defaults
    /\ remotes = {}
    /\ patches_repo = None
    /\ branch_name = <<>>

\* the repository and the observations before the job starts
RepoInit ==
    /\ depth = 0
    /\ log = <<>>
    /\ twin = <<>>
    /\ logged = <<>>
    /\ attempts = 0
    /\ sames = <<>>
    /\ cherries = <<>>
    /\ error = "none"
    /\ exc = NoException
    /\ rebase_exceptions = 0
    /\ waited = 0
    /\ remote_tip = 0
    /\ initial_tip = 0
    /\ remote_tags = {}
    /\ tracking = 0
    /\ local_branch = 0
    /\ tag = NoCommit
    /\ rebasing = FALSE
    /\ external_pushes = 0

Init ==
    /\ \E n \in 0..MaxRetries, dev \in BOOLEAN, rel \in {None, "16.1"} :
          /\ self = Rebaser("my_branch", "my_commit", "my_remote", "000",
                            dev, n, DefaultRelease(rel))
          /\ initial_retries = n
          /\ release = rel
    /\ pc = "fetch"
    /\ RepoInit
    /\ remote_contains \in BOOLEAN
    /\ distgit_branch = <<>>
    /\ parts = <<>>
    /\ existing = {}
    /\ checks = <<>>
    /\ patches_branch = None
    /\ NoCaller

\* ----------------------------------------- decisions taken by the Rebaser
\* if not self.repo.commit.same(self.tag_name, self.remote_branch)
RemoteChanged_inverted(tag_commit, remote_commit) ==
    same(tag_commit, remote_commit)

RemoteChanged(tag_commit, remote_commit) == ~same(tag_commit, remote_commit)

\* if self.max_retries > 0
RetriesRemain_off_by_one(max_retries) == max_retries >= 0

RetriesRemain(max_retries) == max_retries > 0

\* self.max_retries -= 1
Decrement_forgotten(max_retries) == max_retries

Decrement(max_retries) == max_retries - 1

\* if not self.repo.branch.cherry_on_head_only(self.remote_branch, self.branch)
NothingToPublish_ignored(upstream, head) == FALSE

NothingToPublish_inverted(upstream, head) ==
    cherry_on_head_only(upstream, head) # {}

NothingToPublish(upstream, head) == cherry_on_head_only(upstream, head) = {}

\* the arguments of the two git.push calls
PushTagArgs(dev_mode, remote, tag_name) ==
    IF dev_mode THEN <<"-n", remote, tag_name>> ELSE <<remote, tag_name>>

PushBranchArgs_no_dry_run(dev_mode, remote, branch) == <<"-f", remote, branch>>

PushBranchArgs_no_force(dev_mode, remote, branch) ==
    IF dev_mode THEN <<"-n", remote, branch>> ELSE <<"-f", remote, branch>>

PushBranchArgs_always_dry_run(dev_mode, remote, branch) ==
    <<"-nf", remote, branch>>

PushBranchArgs(dev_mode, remote, branch) ==
    IF dev_mode THEN <<"-nf", remote, branch>> ELSE <<"-f", remote, branch>>

\* git push -n / -nf reports what would be pushed and leaves the remote alone
DryRun(args) == args[1] \in {"-n", "-nf"}

\* ------------------------------------------------------------ bookkeeping
Record(calls) ==
    /\ log' = log \o calls
    /\ twin' = twin \o calls

Log(level, msg) == logged' = Append(logged, [level |-> level, msg |-> msg])

Raise(op) ==
    /\ pc' = "raised"
    /\ error' = op

Running == pc \notin {"done", "raised"}

\* -------------------------------------------- rebase_and_update_remote
\* self.repo.remote.fetch(self.remote), the first fetch of an attempt
fetch ==
    /\ pc = "fetch"
    /\ Record(<<Call("remote.fetch", <<self.remote>>)>>)
    /\ \E ok \in BOOLEAN :
          IF ok
          THEN /\ tracking' = remote_tip
               /\ pc' = "branch_create"
               /\ UNCHANGED error
          ELSE /\ Raise("remote.fetch")
               /\ UNCHANGED tracking
    /\ UNCHANGED <<self, initial_retries, depth, attempts, sames, cherries,
                   exc, rebase_exceptions, waited, remote_tip, remote_tags,
                   local_branch, tag, rebasing, external_pushes, frame,
                   logged>>

branch_create_without_reset ==
    /\ pc = "branch_create"
    /\ Record(<<Call("branch.create", <<self.branch, self.remote_branch>>)>>)
    /\ \E ok \in BOOLEAN :
          IF ok
          THEN /\ local_branch' = IF attempts = 0 THEN tracking
                                  ELSE local_branch
               /\ pc' = "tag_create"
               /\ UNCHANGED error
          ELSE /\ Raise("branch.create")
               /\ UNCHANGED local_branch
    /\ UNCHANGED <<self, initial_retries, depth, attempts, sames, cherries,
                   exc, rebase_exceptions, waited, remote_tip, remote_tags,
                   tracking, tag, rebasing, external_pushes, frame,
                   logged>>

\* self.repo.branch.create(self.branch, self.remote_branch, reset_if_exists=True)
branch_create ==
    /\ pc = "branch_create"
    /\ Record(<<Call("branch.create", <<self.branch, self.remote_branch>>)>>)
    /\ \E ok \in BOOLEAN :
          IF ok
          THEN /\ local_branch' = tracking
               /\ pc' = "tag_create"
               /\ UNCHANGED error
          ELSE /\ Raise("branch.create")
               /\ UNCHANGED local_branch
    /\ UNCHANGED <<self, initial_retries, depth, attempts, sames, cherries,
                   exc, rebase_exceptions, waited, remote_tip, remote_tags,
                   tracking, tag, rebasing, external_pushes, frame,
                   logged>>

tag_create_at_remote_tip ==
    /\ pc = "tag_create"
    /\ Record(<<Call("tag.create", <<self.tag_name, self.remote_branch>>)>>)
    /\ \E ok \in BOOLEAN :
          IF ok /\ tag = NoCommit
          THEN /\ tag' = remote_tip
               /\ pc' = "perform_rebase"
               /\ UNCHANGED error
          ELSE /\ Raise("tag.create")
               /\ UNCHANGED tag
    /\ UNCHANGED <<self, initial_retries, depth, attempts, sames, cherries,
                   exc, rebase_exceptions, waited, remote_tip, remote_tags,
                   tracking, local_branch, rebasing, external_pushes,
                   frame, logged>>

\* self.repo.tag.create(self.tag_name, self.remote_branch)
tag_create ==
    /\ pc = "tag_create"
    /\ Record(<<Call("tag.create", <<self.tag_name, self.remote_branch>>)>>)
    /\ \E ok \in BOOLEAN :
          IF ok /\ tag = NoCommit
          THEN /\ tag' = tracking
               /\ pc' = "perform_rebase"
               /\ UNCHANGED error
          ELSE /\ Raise("tag.create")
               /\ UNCHANGED tag
    /\ UNCHANGED <<self, initial_retries, depth, attempts, sames, cherries,
                   exc, rebase_exceptions, waited, remote_tip, remote_tags,
                   tracking, local_branch, rebasing, external_pushes,
                   frame, logged>>

\* ------------------------------------------------------- perform_rebase
\* entry of perform_rebase: rebase_done = False
perform_rebase ==
    /\ pc = "perform_rebase"
    /\ attempts' = attempts + 1
    /\ pc' = "rebase_to_hash"
    /\ UNCHANGED <<self, initial_retries, depth, log, twin, sames, cherries,
                   error, exc, rebase_exceptions, waited, git,
                   external_pushes, frame, logged>>

\* one iteration of the while loop: self.repo.branch.rebase_to_hash(...)
rebase_to_hash ==
    /\ pc = "rebase_to_hash"
    /\ Record(<<Call("branch.rebase_to_hash", <<self.branch, self.commit>>)>>)
    /\ Log("info", "Rebasing")
    /\ \/ \* the rebase completes: rebase_done = True
          /\ \E tip \in {local_branch, Rebased(local_branch)} :
                local_branch' = tip
          /\ rebasing' = FALSE
          /\ pc' = "fetch_again"
          /\ UNCHANGED <<error, exc, rebase_exceptions>>
       \/ \* git_exceptions.RebaseException
          /\ rebase_exceptions < MaxRebaseExceptions
          /\ \E msg \in {GitreviewMessage, OtherMessage} : exc' = msg
          /\ rebase_exceptions' = rebase_exceptions + 1
          /\ rebasing' = TRUE
          /\ pc' = "try_automated_rebase_fix"
          /\ UNCHANGED <<error, local_branch>>
       \/ \* any other exception is not caught by perform_rebase
          /\ Raise("branch.rebase_to_hash")
          /\ UNCHANGED <<exc, rebase_exceptions, local_branch, rebasing>>
    /\ UNCHANGED <<self, initial_retries, depth, attempts, sames, cherries,
                   waited, remote_tip, remote_tags, tracking, tag,
                   external_pushes, frame>>

rebuild_gitreview_forgotten(remote, branch) == <<>>

rebuild_gitreview_without_commit(remote, branch) ==
    <<Call("generate_gitreview", <<branch, remote>>)>>

\* _rebuild_gitreview(repo, remote, branch)
rebuild_gitreview(remote, branch) ==
    <<Call("generate_gitreview", <<branch, remote>>),
      Call("commit.commit", <<"RHOS:  use internal gerrit - DROP-IN-RPM">>)>>

try_automated_rebase_fix_failure_ignored ==
    /\ pc = "try_automated_rebase_fix"
    /\ IF Contains(exc, ".gitreview")
       THEN \/ \* skip and regeneration succeed: return True
               /\ Record(<<Call("git.rebase", <<"--skip">>)>>
                         \o rebuild_gitreview(self.remote, self.branch))
               /\ logged' = logged \o <<[level |-> "warning",
                                         msg |-> "skipping .gitreview patch"]>>
               /\ local_branch' = Rebased(local_branch)
               /\ rebasing' = FALSE
               /\ pc' = "rebase_to_hash"
            \/ \* git rebase --skip raises: return False
               /\ Record(<<Call("git.rebase", <<"--skip">>)>>)
               /\ logged' = logged \o
                     <<[level |-> "warning", msg |-> "skipping .gitreview patch"],
                       [level |-> "error", msg |-> "Failed to fix rebase error"]>>
               /\ pc' = "rebase_to_hash"
               /\ UNCHANGED <<local_branch, rebasing>>
            \/ \* _rebuild_gitreview raises: return False
               /\ Record(<<Call("git.rebase", <<"--skip">>)>>
                         \o rebuild_gitreview(self.remote, self.branch))
               /\ logged' = logged \o
                     <<[level |-> "warning", msg |-> "skipping .gitreview patch"],
                       [level |-> "error", msg |-> "Failed to fix rebase error"]>>
               /\ pc' = "rebase_to_hash"
               /\ UNCHANGED <<local_branch, rebasing>>
       ELSE \* return False
            /\ pc' = "abort_rebase"
            /\ UNCHANGED <<log, twin, logged, local_branch, rebasing>>
    /\ UNCHANGED <<self, initial_retries, depth, attempts, sames, cherries,
                   error, exc, rebase_exceptions, waited, remote_tip,
                   remote_tags, tracking, tag, external_pushes, frame>>

try_automated_rebase_fix_ends_rebase ==
    /\ pc = "try_automated_rebase_fix"
    /\ IF Contains(exc, ".gitreview")
       THEN \/ \* skip and regeneration succeed: return True
               /\ Record(<<Call("git.rebase", <<"--skip">>)>>
                         \o rebuild_gitreview(self.remote, self.branch))
               /\ logged' = logged \o <<[level |-> "warning",
                                         msg |-> "skipping .gitreview patch"]>>
               /\ local_branch' = Rebased(local_branch)
               /\ rebasing' = FALSE
               /\ pc' = "fetch_again"
            \/ \* git rebase --skip raises: return False
               /\ Record(<<Call("git.rebase", <<"--skip">>)>>)
               /\ logged' = logged \o
                     <<[level |-> "warning", msg |-> "skipping .gitreview patch"],
                       [level |-> "error", msg |-> "Failed to fix rebase error"]>>
               /\ pc' = "abort_rebase"
               /\ UNCHANGED <<local_branch, rebasing>>
            \/ \* _rebuild_gitreview raises: return False
               /\ Record(<<Call("git.rebase", <<"--skip">>)>>
                         \o rebuild_gitreview(self.remote, self.branch))
               /\ logged' = logged \o
                     <<[level |-> "warning", msg |-> "skipping .gitreview patch"],
                       [level |-> "error", msg |-> "Failed to fix rebase error"]>>
               /\ pc' = "abort_rebase"
               /\ UNCHANGED <<local_branch, rebasing>>
       ELSE \* return False
            /\ pc' = "abort_rebase"
            /\ UNCHANGED <<log, twin, logged, local_branch, rebasing>>
    /\ UNCHANGED <<self, initial_retries, depth, attempts, sames, cherries,
                   error, exc, rebase_exceptions, waited, remote_tip,
                   remote_tags, tracking, tag, external_pushes, frame>>

\* if not self.try_automated_rebase_fix(e): ...
try_automated_rebase_fix ==
    /\ pc = "try_automated_rebase_fix"
    /\ IF Contains(exc, ".gitreview")
       THEN \/ \* skip and regeneration succeed: return True
               /\ Record(<<Call("git.rebase", <<"--skip">>)>>
                         \o rebuild_gitreview(self.remote, self.branch))
               /\ logged' = logged \o <<[level |-> "warning",
                                         msg |-> "skipping .gitreview patch"]>>
               /\ local_branch' = Rebased(local_branch)
               /\ rebasing' = FALSE
               /\ pc' = "rebase_to_hash"
            \/ \* git rebase --skip raises: return False
               /\ Record(<<Call("git.rebase", <<"--skip">>)>>)
               /\ logged' = logged \o
                     <<[level |-> "warning", msg |-> "skipping .gitreview patch"],
                       [level |-> "error", msg |-> "Failed to fix rebase error"]>>
               /\ pc' = "abort_rebase"
               /\ UNCHANGED <<local_branch, rebasing>>
            \/ \* _rebuild_gitreview raises: return False
               /\ Record(<<Call("git.rebase", <<"--skip">>)>>
                         \o rebuild_gitreview(self.remote, self.branch))
               /\ logged' = logged \o
                     <<[level |-> "warning", msg |-> "skipping .gitreview patch"],
                       [level |-> "error", msg |-> "Failed to fix rebase error"]>>
               /\ pc' = "abort_rebase"
               /\ UNCHANGED <<local_branch, rebasing>>
       ELSE \* return False
            /\ pc' = "abort_rebase"
            /\ UNCHANGED <<log, twin, logged, local_branch, rebasing>>
    /\ UNCHANGED <<self, initial_retries, depth, attempts, sames, cherries,
                   error, exc, rebase_exceptions, waited, remote_tip,
                   remote_tags, tracking, tag, external_pushes, frame>>

\* self.repo.branch.abort_rebase(); raise
abort_rebase ==
    /\ pc = "abort_rebase"
    /\ Record(<<Call("branch.abort_rebase", <<>>)>>)
    /\ Log("info", "Could not rebase. Cleaning up.")
    /\ \E ok \in BOOLEAN :
          IF ok
          THEN /\ rebasing' = FALSE
               /\ Raise("RebaseException")
          ELSE /\ Raise("branch.abort_rebase")
               /\ UNCHANGED rebasing
    /\ UNCHANGED <<self, initial_retries, depth, attempts, sames, cherries,
                   exc, rebase_exceptions, waited, remote_tip, remote_tags,
                   tracking, local_branch, tag, external_pushes, frame>>

\* ------------------------------- rebase_and_update_remote, after the rebase
\* self.repo.remote.fetch(self.remote), the second fetch of an attempt
fetch_again ==
    /\ pc = "fetch_again"
    /\ Record(<<Call("remote.fetch", <<self.remote>>)>>)
    /\ \E ok \in BOOLEAN :
          IF ok
          THEN /\ tracking' = remote_tip
               /\ pc' = "commit_same"
               /\ UNCHANGED error
          ELSE /\ Raise("remote.fetch")
               /\ UNCHANGED tracking
    /\ UNCHANGED <<self, initial_retries, depth, attempts, sames, cherries,
                   exc, rebase_exceptions, waited, remote_tip, remote_tags,
                   local_branch, tag, rebasing, external_pushes, frame,
                   logged>>

commit_same_raises_when_exhausted ==
    /\ pc = "commit_same"
    /\ Record(<<Call("commit.same", <<self.tag_name, self.remote_branch>>)>>)
    /\ \E ok \in BOOLEAN :
          IF ok
          THEN /\ sames' = Append(sames, same(tag, tracking))
               /\ UNCHANGED error
               /\ IF RemoteChanged(tag, tracking)
                  THEN IF RetriesRemain(self.max_retries)
                       THEN /\ Log("info", "Remote changed during rebase")
                            /\ pc' = "sleep"
                       ELSE /\ Log("error", "Remote changed multiple times")
                            /\ pc' = "raised"
                  ELSE /\ pc' = "update_remote_patches_branch"
                       /\ UNCHANGED logged
          ELSE /\ Raise("commit.same")
               /\ UNCHANGED <<sames, logged>>
    /\ UNCHANGED <<self, initial_retries, depth, attempts, cherries,
                   exc, rebase_exceptions, waited, git, external_pushes,
                   frame>>

\* if not self.repo.commit.same(self.tag_name, self.remote_branch): ...
commit_same ==
    /\ pc = "commit_same"
    /\ Record(<<Call("commit.same", <<self.tag_name, self.remote_branch>>)>>)
    /\ \E ok \in BOOLEAN :
          IF ok
          THEN /\ sames' = Append(sames, same(tag, tracking))
               /\ UNCHANGED error
               /\ IF RemoteChanged(tag, tracking)
                  THEN IF RetriesRemain(self.max_retries)
                       THEN /\ Log("info", "Remote changed during rebase")
                            /\ pc' = "sleep"
                       ELSE /\ Log("warning", "Remote changed multiple times")
                            /\ pc' = "return"
                  ELSE /\ pc' = "update_remote_patches_branch"
                       /\ UNCHANGED logged
          ELSE /\ Raise("commit.same")
               /\ UNCHANGED <<sames, logged>>
    /\ UNCHANGED <<self, initial_retries, depth, attempts, cherries,
                   exc, rebase_exceptions, waited, git, external_pushes,
                   frame>>

sleep_without_back_off ==
    /\ pc = "sleep"
    /\ Record(<<Call("time.sleep", <<>>)>>)
    /\ waited' = waited
    /\ self' = [self EXCEPT !.max_retries = Decrement(@)]
    /\ pc' = "tag_delete"
    /\ UNCHANGED <<initial_retries, depth, attempts, sames, cherries, error,
                   exc, rebase_exceptions, git, external_pushes, frame,
                   logged>>

sleep_renews_tag_name ==
    /\ pc = "sleep"
    /\ Record(<<Call("time.sleep", <<>>)>>)
    /\ waited' = waited + BackOff
    /\ self' = [self EXCEPT !.max_retries = Decrement(@),
                             !.tag_name = TagName("retry", self.timestamp)]
    /\ pc' = "tag_delete"
    /\ UNCHANGED <<initial_retries, depth, attempts, sames, cherries, error,
                   exc, rebase_exceptions, git, external_pushes, frame,
                   logged>>

\* time.sleep(20); self.max_retries -= 1
sleep ==
    /\ pc = "sleep"
    /\ Record(<<Call("time.sleep", <<>>)>>)
    /\ waited' = waited + BackOff
    /\ self' = [self EXCEPT !.max_retries = Decrement(@)]
    /\ pc' = "tag_delete"
    /\ UNCHANGED <<initial_retries, depth, attempts, sames, cherries, error,
                   exc, rebase_exceptions, git, external_pushes, frame,
                   logged>>

tag_delete_forgotten ==
    /\ pc = "tag_delete"
    /\ UNCHANGED <<log, twin>>
    /\ \E ok \in BOOLEAN :
          IF ok
          THEN /\ tag' = tag
               /\ depth' = depth + 1
               /\ pc' = "fetch"
               /\ UNCHANGED error
          ELSE /\ Raise("tag.delete")
               /\ UNCHANGED <<tag, depth>>
    /\ UNCHANGED <<self, initial_retries, attempts, sames, cherries,
                   exc, rebase_exceptions, waited, remote_tip, remote_tags,
                   tracking, local_branch, rebasing, external_pushes,
                   frame, logged>>

\* self.repo.tag.delete(self.tag_name); self.rebase_and_update_remote()
tag_delete ==
    /\ pc = "tag_delete"
    /\ Record(<<Call("tag.delete", <<self.tag_name>>)>>)
    /\ \E ok \in BOOLEAN :
          IF ok
          THEN /\ tag' = NoCommit
               /\ depth' = depth + 1
               /\ pc' = "fetch"
               /\ UNCHANGED error
          ELSE /\ Raise("tag.delete")
               /\ UNCHANGED <<tag, depth>>
    /\ UNCHANGED <<self, initial_retries, attempts, sames, cherries,
                   exc, rebase_exceptions, waited, remote_tip, remote_tags,
                   tracking, local_branch, rebasing, external_pushes,
                   frame, logged>>

update_remote_patches_branch_without_tag_push ==
    /\ pc = "update_remote_patches_branch"
    /\ Record(<<Call("branch.cherry_on_head_only",
                     <<self.remote_branch, self.branch>>)>>)
    /\ \E ok \in BOOLEAN :
          IF ok
          THEN /\ cherries' = Append(cherries,
                      cherry_on_head_only(tracking, local_branch) # {})
               /\ UNCHANGED error
               /\ IF NothingToPublish(tracking, local_branch)
                  THEN /\ pc' = "tag_delete_unneeded"
                       /\ UNCHANGED logged
                  ELSE /\ pc' = "push_branch"
                       /\ Log("warning", IF self.dev_mode
                                         THEN "Dev mode: dry-run"
                                         ELSE "Force-pushing")
          ELSE /\ Raise("branch.cherry_on_head_only")
               /\ UNCHANGED <<cherries, logged>>
    /\ UNCHANGED <<self, initial_retries, depth, attempts, sames,
                   exc, rebase_exceptions, waited, git, external_pushes,
                   frame>>

\* ----------------------------------------- update_remote_patches_branch
\* if not self.repo.branch.cherry_on_head_only(self.remote_branch, self.branch)
update_remote_patches_branch ==
    /\ pc = "update_remote_patches_branch"
    /\ Record(<<Call("branch.cherry_on_head_only",
                     <<self.remote_branch, self.branch>>)>>)
    /\ \E ok \in BOOLEAN :
          IF ok
          THEN /\ cherries' = Append(cherries,
                      cherry_on_head_only(tracking, local_branch) # {})
               /\ UNCHANGED error
               /\ IF NothingToPublish(tracking, local_branch)
                  THEN /\ pc' = "tag_delete_unneeded"
                       /\ UNCHANGED logged
                  ELSE /\ pc' = "push_tag"
                       /\ Log("warning", IF self.dev_mode
                                         THEN "Dev mode: dry-run"
                                         ELSE "Force-pushing")
          ELSE /\ Raise("branch.cherry_on_head_only")
               /\ UNCHANGED <<cherries, logged>>
    /\ UNCHANGED <<self, initial_retries, depth, attempts, sames,
                   exc, rebase_exceptions, waited, git, external_pushes,
                   frame>>

tag_delete_unneeded_forgotten ==
    /\ pc = "tag_delete_unneeded"
    /\ pc' = "return"
    /\ UNCHANGED <<self, initial_retries, depth, log, twin, attempts, sames,
                   cherries, error, exc, rebase_exceptions, waited, git,
                   external_pushes, frame, logged>>

\* self.repo.tag.delete(self.tag_name); return
tag_delete_unneeded ==
    /\ pc = "tag_delete_unneeded"
    /\ Record(<<Call("tag.delete", <<self.tag_name>>)>>)
    /\ \E ok \in BOOLEAN :
          IF ok
          THEN /\ tag' = NoCommit
               /\ pc' = "return"
               /\ UNCHANGED error
          ELSE /\ Raise("tag.delete")
               /\ UNCHANGED tag
    /\ UNCHANGED <<self, initial_retries, depth, attempts, sames, cherries,
                   exc, rebase_exceptions, waited, remote_tip, remote_tags,
                   tracking, local_branch, rebasing, external_pushes,
                   frame, logged>>

push_tag_failure_ignored ==
    /\ pc = "push_tag"
    /\ log' = Append(log, Call("git.push",
                  PushTagArgs(self.dev_mode, self.remote, self.tag_name)))
    /\ twin' = Append(twin, Call("git.push",
                  PushTagArgs(~self.dev_mode, self.remote, self.tag_name)))
    /\ \E ok \in BOOLEAN :
          IF ok
          THEN /\ remote_tags' =
                     IF DryRun(PushTagArgs(self.dev_mode, self.remote,
                                           self.tag_name))
                     THEN remote_tags
                     ELSE remote_tags \cup {<<self.tag_name, tag>>}
               /\ pc' = "push_branch"
               /\ UNCHANGED error
          ELSE /\ pc' = "push_branch"
               /\ error' = "git.push"
               /\ UNCHANGED remote_tags
    /\ UNCHANGED <<self, initial_retries, depth, attempts, sames, cherries,
                   exc, rebase_exceptions, waited, remote_tip, tracking,
                   local_branch, tag, rebasing, external_pushes, frame,
                   logged>>

\* self.repo.git.push(["-n",] self.remote, self.tag_name)
push_tag ==
    /\ pc = "push_tag"
    /\ log' = Append(log, Call("git.push",
                  PushTagArgs(self.dev_mode, self.remote, self.tag_name)))
    /\ twin' = Append(twin, Call("git.push",
                  PushTagArgs(~self.dev_mode, self.remote, self.tag_name)))
    /\ \E ok \in BOOLEAN :
          IF ok
          THEN /\ remote_tags' =
                     IF DryRun(PushTagArgs(self.dev_mode, self.remote,
                                           self.tag_name))
                     THEN remote_tags
                     ELSE remote_tags \cup {<<self.tag_name, tag>>}
               /\ pc' = "push_branch"
               /\ UNCHANGED error
          ELSE /\ Raise("git.push")
               /\ UNCHANGED remote_tags
    /\ UNCHANGED <<self, initial_retries, depth, attempts, sames, cherries,
                   exc, rebase_exceptions, waited, remote_tip, tracking,
                   local_branch, tag, rebasing, external_pushes, frame,
                   logged>>

push_branch_then_tag_delete ==
    /\ pc = "push_branch"
    /\ log' = Append(log, Call("git.push",
                  PushBranchArgs(self.dev_mode, self.remote, self.branch)))
    /\ twin' = Append(twin, Call("git.push",
                  PushBranchArgs(~self.dev_mode, self.remote, self.branch)))
    /\ \E ok \in BOOLEAN :
          IF ok
          THEN /\ remote_tip' =
                     IF DryRun(PushBranchArgs(self.dev_mode, self.remote,
                                              self.branch))
                     THEN remote_tip ELSE local_branch
               /\ tracking' =
                     IF DryRun(PushBranchArgs(self.dev_mode, self.remote,
                                              self.branch))
                     THEN tracking ELSE local_branch
               /\ pc' = "tag_delete_unneeded"
               /\ UNCHANGED error
          ELSE /\ Raise("git.push")
               /\ UNCHANGED <<remote_tip, tracking>>
    /\ UNCHANGED <<self, initial_retries, depth, attempts, sames, cherries,
                   exc, rebase_exceptions, waited, remote_tags,
                   local_branch, tag, rebasing, external_pushes, frame,
                   logged>>

\* self.repo.git.push("-nf" | "-f", self.remote, self.branch)
push_branch ==
    /\ pc = "push_branch"
    /\ log' = Append(log, Call("git.push",
                  PushBranchArgs(self.dev_mode, self.remote, self.branch)))
    /\ twin' = Append(twin, Call("git.push",
                  PushBranchArgs(~self.dev_mode, self.remote, self.branch)))
    /\ \E ok \in BOOLEAN :
          IF ok
          THEN /\ remote_tip' =
                     IF DryRun(PushBranchArgs(self.dev_mode, self.remote,
                                              self.branch))
                     THEN remote_tip ELSE local_branch
               /\ tracking' =
                     IF DryRun(PushBranchArgs(self.dev_mode, self.remote,
                                              self.branch))
                     THEN tracking ELSE local_branch
               /\ pc' = "return"
               /\ UNCHANGED error
          ELSE /\ Raise("git.push")
               /\ UNCHANGED <<remote_tip, tracking>>
    /\ UNCHANGED <<self, initial_retries, depth, attempts, sames, cherries,
                   exc, rebase_exceptions, waited, remote_tags,
                   local_branch, tag, rebasing, external_pushes, frame,
                   logged>>

return_falls_through ==
    /\ pc = "return"
    /\ IF depth > 0
       THEN /\ depth' = depth - 1
            /\ pc' = "update_remote_patches_branch"
       ELSE /\ pc' = "done"
            /\ UNCHANGED depth
    /\ UNCHANGED <<self, initial_retries, log, twin, attempts, sames,
                   cherries, error, exc, rebase_exceptions, waited, git,
                   external_pushes, frame, logged>>

\* a frame of rebase_and_update_remote returns to its caller
return ==
    /\ pc = "return"
    /\ IF depth > 0
       THEN /\ depth' = depth - 1
            /\ UNCHANGED pc
       ELSE /\ pc' = "done"
            /\ UNCHANGED depth
    /\ UNCHANGED <<self, initial_retries, log, twin, attempts, sames,
                   cherries, error, exc, rebase_exceptions, waited, git,
                   external_pushes, frame, logged>>

\* ------------------------------------------------------------ environment
\* another actor pushes a new commit to the remote branch
external_push ==
    /\ Running
    /\ external_pushes < MaxExternalPushes
    /\ external_pushes' = external_pushes + 1
    /\ remote_tip' = external_pushes + 1
    /\ UNCHANGED <<self, initial_retries, pc, depth, log, twin, attempts,
                   sames, cherries, error, exc, rebase_exceptions, waited,
                   remote_tags, tracking, local_branch, tag, rebasing,
                   frame, logged>>

Next ==
    \/ fetch
    \/ branch_create
    \/ tag_create
    \/ perform_rebase
    \/ rebase_to_hash
    \/ try_automated_rebase_fix
    \/ abort_rebase
    \/ fetch_again
    \/ commit_same
    \/ sleep
    \/ tag_delete
    \/ update_remote_patches_branch
    \/ tag_delete_unneeded
    \/ push_tag
    \/ push_branch
    \/ return
    \/ external_push

Spec == Init /\ [][Next]_vars

\* ------------------------------------------------------------ observations
RECURSIVE CountOp(_, _)
\* ------------------------------------------- perform_rebase without a bound
\* The while loop of perform_rebase has no bound of its own.  Past
\* MaxRebaseExceptions the loop goes on but is no longer written to the
\* observations (log, twin, logged), so that its states repeat.
\* rebase_to_hash raises a RebaseException once more
rebase_to_hash_again ==
    /\ pc = "rebase_to_hash"
    /\ rebase_exceptions >= MaxRebaseExceptions
    /\ \E msg \in {GitreviewMessage, OtherMessage} : exc' = msg
    /\ rebase_exceptions' = MaxRebaseExceptions + 1
    /\ rebasing' = TRUE
    /\ pc' = "try_automated_rebase_fix"
    /\ UNCHANGED <<self, initial_retries, depth, log, twin, logged, attempts,
                   sames, cherries, error, waited, remote_tip, remote_tags,
                   tracking, local_branch, tag, external_pushes, frame>>

\* try_automated_rebase_fix for such an exception
try_automated_rebase_fix_again ==
    /\ pc = "try_automated_rebase_fix"
    /\ rebase_exceptions > MaxRebaseExceptions
    /\ IF Contains(exc, ".gitreview")
       THEN \/ /\ local_branch' = Rebased(local_branch)
               /\ rebasing' = FALSE
               /\ pc' = "rebase_to_hash"
            \/ /\ pc' = "abort_rebase"
               /\ UNCHANGED <<local_branch, rebasing>>
       ELSE /\ pc' = "abort_rebase"
            /\ UNCHANGED <<local_branch, rebasing>>
    /\ UNCHANGED <<self, initial_retries, depth, log, twin, logged, attempts,
                   sames, cherries, error, exc, rebase_exceptions, waited,
                   remote_tip, remote_tags, tracking, tag, external_pushes,
                   frame>>

try_automated_rebase_fix_observed ==
    /\ rebase_exceptions <= MaxRebaseExceptions
    /\ try_automated_rebase_fix

NextUnbounded ==
    \/ fetch
    \/ branch_create
    \/ tag_create
    \/ perform_rebase
    \/ rebase_to_hash
    \/ rebase_to_hash_again
    \/ try_automated_rebase_fix_observed
    \/ try_automated_rebase_fix_again
    \/ abort_rebase
    \/ fetch_again
    \/ commit_same
    \/ sleep
    \/ tag_delete
    \/ update_remote_patches_branch
    \/ tag_delete_unneeded
    \/ push_tag
    \/ push_branch
    \/ return
    \/ external_push

\* the job is one sequential program: it always takes its next step
JobStep == NextUnbounded /\ external_pushes' = external_pushes

LiveSpec == Init /\ [][NextUnbounded]_vars /\ WF_vars(JobStep)

\* the same with the number of RebaseExceptions bounded
FairSpec == Spec /\ WF_vars(Next /\ external_pushes' = external_pushes)

\* ------------------------------------------------- find_patches_branch
\* the '-'-separated segments identifiers are made of
Segments == {"rhos", "17.0", "trunk", "mytrunk"}

Identifiers == UNION {[1..n -> Segments] : n \in 1..MaxSegments}

\* '-'.join(parts)
RECURSIVE Join(_)
Join(ps) ==
    IF ps = <<>> THEN ""
    ELSE IF Len(ps) = 1 THEN ps[1]
    ELSE Join(SubSeq(ps, 1, Len(ps) - 1)) \o "-" \o ps[Len(ps)]

\* 'trunk' in distgit_branch: 'trunk' holds no '-', so it lies in one segment
HasTrunk(identifier) ==
    \E i \in 1..Len(identifier) : identifier[i] \in {"trunk", "mytrunk"}

Suffix(identifier) ==
    IF HasTrunk(identifier) THEN "-trunk-patches" ELSE "-patches"

\* branch = '%s-trunk-patches' % '-'.join(parts), or '%s-patches' % ...
Candidate_suffix_from_parts(identifier, ps) == Join(ps) \o Suffix(ps)

Candidate(identifier, ps) == Join(ps) \o Suffix(identifier)

\* parts.pop()
Pop_front(ps) == Tail(ps)

Pop(ps) == SubSeq(ps, 1, Len(ps) - 1)

\* the branch names an identifier can lead to, with either suffix
Names(identifier) ==
    {Join(SubSeq(identifier, 1, k)) \o sfx :
        k \in 1..Len(identifier), sfx \in {"-patches", "-trunk-patches"}}

\* find_patches_branch is called before any Rebaser is run
ResolverInit ==
    /\ \E identifier \in Identifiers :
          /\ distgit_branch = identifier
          /\ parts = identifier
          /\ existing \in SUBSET Names(identifier)
    /\ checks = <<>>
    /\ patches_branch = None
    /\ pc = "find_patches_branch"
    /\ self = Rebaser("", "my_commit", "my_remote", "000", TRUE, 0, "unknown")
    /\ initial_retries = 0
    /\ remote_contains = FALSE
    /\ release = None
    /\ NoCaller
    /\ RepoInit

\* one iteration of `while parts`
find_patches_branch ==
    /\ pc = "find_patches_branch"
    /\ parts # <<>>
    /\ checks' = Append(checks, Candidate(distgit_branch, parts))
    /\ IF Candidate(distgit_branch, parts) \in existing
       THEN /\ patches_branch' = Candidate(distgit_branch, parts)
            /\ pc' = "resolved"
            /\ UNCHANGED parts
       ELSE /\ parts' = Pop(parts)
            /\ UNCHANGED <<pc, patches_branch>>
    /\ UNCHANGED <<self, initial_retries, depth, log, twin, logged, attempts,
                   sames, cherries, error, exc, rebase_exceptions, waited,
                   git, external_pushes, initial_tip, remote_contains,
                   distgit_branch, existing, release, caller>>

\* return None
find_patches_branch_not_found ==
    /\ pc = "find_patches_branch"
    /\ parts = <<>>
    /\ patches_branch' = None
    /\ pc' = "resolved"
    /\ UNCHANGED <<self, initial_retries, depth, log, twin, logged, attempts,
                   sames, cherries, error, exc, rebase_exceptions, waited,
                   git, external_pushes, initial_tip, remote_contains,
                   distgit_branch, parts, existing, checks, release, caller>>

ResolverNext == find_patches_branch \/ find_patches_branch_not_found

ResolverSpec == ResolverInit /\ [][ResolverNext]_vars

\* ---------------------------------------------------------------- main
\* def __init__(..., max_retries=3, ...): main passes no max_retries
DefaultMaxRetries == 3

\* what the environment and distroinfo hand to main
PkgName == "TEST_PACKAGE"
SourceCommit == "123456a"
PatchesUrl == "http://test_repo.com"
StaleUrl == "http://origin_remote.com"
EnvPatchesBranch == <<"test", "patches">>

\* the segments an identifier resolves with: '-trunk-patches' or '-patches'
SuffixSegments(identifier) ==
    IF HasTrunk(identifier) THEN <<"trunk", "patches">> ELSE <<"patches">>

\* get_release_from_branch_name(branch_name), the name split on '-'
get_release_from_branch_name(segments) ==
    IF Len(segments) >= 2 THEN segments[2] ELSE "Unknown"

\* if config.packages_to_process and
\*    dlrn.pkg_name not in config.packages_to_process
Skipped(cfg) ==
    cfg.packages_to_process # {} /\ PkgName \notin cfg.packages_to_process

\* if config.remote_name not in repo.remote.names()
RemoteMissing(name, rs) == name \notin {r[1] : r \in rs}

\* if config.create_patches_branch
ShouldCreate_always(cfg) == TRUE

ShouldCreate(cfg) == cfg.create_patches_branch

\* the arguments of the git.push of create_patches_branch
CreatePushArgs(dev_mode, remote, branch) ==
    IF dev_mode THEN <<"-n", remote, branch>> ELSE <<remote, branch>>

MainIdentifiers == {<<"rhos", "17.0">>}

\* main is started by DLRN with a configuration, a local repository and a
\* remote that holds some patches branches
MainInit ==
    /\ config \in [remote_name           : {"test_remote_name"},
                   dev_mode              : BOOLEAN,
                   create_patches_branch : BOOLEAN,
                   packages_to_process   : {{}, {PkgName}, {"other"}}]
    /\ remotes \in {{}, {<<"test_remote_name", PatchesUrl>>},
                    {<<"test_remote_name", StaleUrl>>}}
    /\ patches_repo = None
    /\ branch_name = <<>>
    /\ \E identifier \in MainIdentifiers :
          /\ distgit_branch = identifier
          /\ existing \in SUBSET {Candidate(identifier, SubSeq(identifier, 1, k)) :
                                     k \in 1..Len(identifier)}
    /\ parts = <<>>
    /\ checks = <<>>
    /\ patches_branch = None
    /\ pc = "main"
    /\ self = Rebaser("", SourceCommit, "test_remote_name", "000", TRUE, 0,
                      "unknown")
    /\ initial_retries = 0
    /\ remote_contains = FALSE
    /\ release = None
    /\ RepoInit

\* what the steps of main before the Rebaser leave alone
idle == <<self, initial_retries, depth, attempts, sames, cherries, exc,
          rebase_exceptions, waited, external_pushes, initial_tip,
          remote_contains, release, config>>

\* get_rebaser_config, the packages_to_process check, set_up_git_config
main ==
    /\ pc = "main"
    /\ IF Skipped(config)
       THEN /\ Log("info", "Skipping, as package not in list")
            /\ pc' = "done"
       ELSE /\ pc' = "get_patches_repo"
            /\ UNCHANGED logged
    /\ UNCHANGED <<idle, log, twin, error, git, resolver, remotes,
                   patches_repo, branch_name>>

\* patches_repo = get_patches_repo(...); if not patches_repo: return
get_patches_repo ==
    /\ pc = "get_patches_repo"
    /\ Record(<<Call("get_patches_repo", <<PkgName>>)>>)
    /\ \/ /\ patches_repo' = PatchesUrl
          /\ pc' = "remote_names"
          /\ UNCHANGED <<error, logged>>
       \/ /\ Log("warning", "No repo listed for package")
          /\ pc' = "done"
          /\ UNCHANGED <<error, patches_repo>>
       \/ /\ Raise("get_patches_repo")
          /\ UNCHANGED <<patches_repo, logged>>
    /\ UNCHANGED <<idle, git, resolver, remotes, branch_name>>

\* if config.remote_name not in repo.remote.names(): ...
remote_names ==
    /\ pc = "remote_names"
    /\ Record(<<Call("remote.names", <<>>)>>)
    /\ pc' = IF RemoteMissing(config.remote_name, remotes)
             THEN "remote_add" ELSE "fetch_all"
    /\ UNCHANGED <<idle, error, logged, git, resolver, remotes, patches_repo,
                   branch_name>>

\* if not repo.remote.add(config.remote_name, patches_repo): raise Exception
remote_add ==
    /\ pc = "remote_add"
    /\ Record(<<Call("remote.add", <<config.remote_name, patches_repo>>)>>)
    /\ \/ /\ remotes' = remotes \cup {<<config.remote_name, patches_repo>>}
          /\ pc' = "fetch_all"
          /\ UNCHANGED error
       \/ /\ Raise("Could not add remote")
          /\ UNCHANGED remotes
       \/ /\ Raise("remote.add")
          /\ UNCHANGED remotes
    /\ UNCHANGED <<idle, logged, git, resolver, patches_repo, branch_name>>

\* repo.remote.fetch_all()
fetch_all ==
    /\ pc = "fetch_all"
    /\ Record(<<Call("remote.fetch_all", <<>>)>>)
    /\ \E ok \in BOOLEAN :
          IF ok
          THEN /\ tracking' = remote_tip
               /\ pc' = "get_patches_branch"
               /\ UNCHANGED error
          ELSE /\ Raise("remote.fetch_all")
               /\ UNCHANGED tracking
    /\ UNCHANGED <<idle, logged, remote_tip, remote_tags, local_branch, tag,
                   rebasing, resolver, remotes, patches_repo, branch_name>>

\* get_patches_branch: distgit_branch = get_downstream_distgit_branch(...);
\* find_patches_branch starts with parts = distgit_branch.split('-')
get_patches_branch ==
    /\ pc = "get_patches_branch"
    /\ \/ /\ parts' = distgit_branch
          /\ pc' = "find_patches_branch"
          /\ UNCHANGED error
       \/ /\ Raise("get_downstream_distgit_branch")
          /\ UNCHANGED parts
    /\ UNCHANGED <<idle, log, twin, logged, git, distgit_branch, existing,
                   checks, patches_branch, remotes, patches_repo,
                   branch_name>>

\* branch_name = get_patches_branch(...); if not branch_name: ...
missing_patches_branch ==
    /\ pc = "resolved"
    /\ IF patches_branch = None
       THEN /\ branch_name' = <<>>
            /\ IF ShouldCreate(config)
               THEN /\ Log("warning",
                           "Patches branch does not exist, creating it")
                    /\ pc' = "create_patches_branch"
               ELSE /\ Log("warning",
                           "Patches branch does not exist, not creating it")
                    /\ pc' = "done"
       ELSE /\ branch_name' = parts \o SuffixSegments(distgit_branch)
            /\ pc' = "Rebaser"
            /\ UNCHANGED logged
    /\ UNCHANGED <<idle, log, twin, error, git, resolver, remotes,
                   patches_repo>>

\* create_patches_branch: branch_name = os.environ.get('PATCHES_BRANCH', None);
\* main raises when create_patches_branch returns None
create_patches_branch ==
    /\ pc = "create_patches_branch"
    /\ Record(<<Call("create_patches_branch",
                     <<SourceCommit, config.remote_name>>)>>)
    /\ \/ /\ branch_name' = EnvPatchesBranch
          /\ pc' = "create_branch"
          /\ UNCHANGED <<error, logged>>
       \/ /\ Log("error", "No PATCHES_BRANCH env var found")
          /\ Raise("Could not create -patches branch")
          /\ UNCHANGED branch_name
    /\ UNCHANGED <<idle, git, resolver, remotes, patches_repo>>

\* if not repo.branch.create(branch_name, commit): return None
create_branch ==
    /\ pc = "create_branch"
    /\ Record(<<Call("branch.create", <<Join(branch_name), SourceCommit>>)>>)
    /\ \/ /\ pc' = "checkout"
          /\ UNCHANGED <<error, logged, branch_name>>
       \/ /\ Log("error", "Failed to create -patches branch")
          /\ Raise("Could not create -patches branch")
          /\ branch_name' = <<>>
       \/ /\ Raise("branch.create")
          /\ UNCHANGED <<logged, branch_name>>
    /\ UNCHANGED <<idle, git, resolver, remotes, patches_repo>>

\* repo.git.checkout(branch_name)
checkout ==
    /\ pc = "checkout"
    /\ Record(<<Call("git.checkout", <<Join(branch_name)>>)>>)
    /\ \E ok \in BOOLEAN :
          IF ok THEN pc' = "rebuild" /\ UNCHANGED error
                ELSE Raise("git.checkout")
    /\ UNCHANGED <<idle, logged, git, resolver, remotes, patches_repo,
                   branch_name>>

\* _rebuild_gitreview(repo, remote, branch_name)
rebuild ==
    /\ pc = "rebuild"
    /\ Record(rebuild_gitreview(config.remote_name, Join(branch_name)))
    /\ \E ok \in BOOLEAN :
          IF ok THEN pc' = "push_created" /\ UNCHANGED error
                ELSE Raise("_rebuild_gitreview")
    /\ UNCHANGED <<idle, logged, git, resolver, remotes, patches_repo,
                   branch_name>>

\* repo.git.push(["-n",] remote, branch_name); return branch_name; main returns
push_created ==
    /\ pc = "push_created"
    /\ log' = Append(log, Call("git.push",
                  CreatePushArgs(config.dev_mode, config.remote_name,
                                 Join(branch_name))))
    /\ twin' = Append(twin, Call("git.push",
                  CreatePushArgs(~config.dev_mode, config.remote_name,
                                 Join(branch_name))))
    /\ Log("warning", IF config.dev_mode THEN "Dev mode: dry-run"
                                         ELSE "Pushing")
    /\ \E ok \in BOOLEAN :
          IF ok
          THEN /\ existing' =
                     IF DryRun(CreatePushArgs(config.dev_mode,
                                  config.remote_name, Join(branch_name)))
                     THEN existing
                     ELSE existing \cup {Join(branch_name)}
               /\ pc' = "done"
               /\ UNCHANGED error
          ELSE /\ Raise("git.push")
               /\ UNCHANGED existing
    /\ UNCHANGED <<idle, git, distgit_branch, parts, checks, patches_branch,
                   remotes, patches_repo, branch_name>>

\* rebaser = Rebaser(repo, branch_name, dlrn.commit, config.remote_name,
\*                   timestamp, config.dev_mode, release=release)
\* rebaser.rebase_and_update_remote() is entered
construct_rebaser ==
    /\ pc = "Rebaser"
    /\ self' = Rebaser(Join(branch_name), SourceCommit, config.remote_name,
                       "000", config.dev_mode, DefaultMaxRetries,
                       get_release_from_branch_name(branch_name))
    /\ initial_retries' = DefaultMaxRetries
    /\ release' = get_release_from_branch_name(branch_name)
    /\ initial_tip' = remote_tip
    /\ pc' = "fetch"
    /\ UNCHANGED <<depth, log, twin, logged, attempts, sames, cherries,
                   error, exc, rebase_exceptions, waited, git,
                   external_pushes, remote_contains, resolver, caller>>

MainNext ==
    \/ main
    \/ get_patches_repo
    \/ remote_names
    \/ remote_add
    \/ fetch_all
    \/ get_patches_branch
    \/ find_patches_branch
    \/ find_patches_branch_not_found
    \/ missing_patches_branch
    \/ create_patches_branch
    \/ create_branch
    \/ checkout
    \/ rebuild
    \/ push_created
    \/ construct_rebaser
    \/ fetch
    \/ branch_create
    \/ tag_create
    \/ perform_rebase
    \/ rebase_to_hash
    \/ try_automated_rebase_fix
    \/ abort_rebase
    \/ fetch_again
    \/ commit_same
    \/ sleep
    \/ tag_delete
    \/ update_remote_patches_branch
    \/ tag_delete_unneeded
    \/ push_tag
    \/ push_branch
    \/ return
    \/ external_push

MainSpec == MainInit /\ [][MainNext]_vars

\* ------------------------------------------ get_release_from_branch_name
\* the '-'-separated segments branch names are made of
BranchSegments == {"rhos", "18.0", "foo", "trunk", "patches"}

\* the longest names hold MaxSegments segments and the '-trunk-patches' suffix
BranchNames == UNION {[1..n -> BranchSegments] : n \in 1..(MaxSegments + 2)}

ReleaseInit ==
    /\ branch_name \in BranchNames
    /\ release = None
    /\ pc = "get_release_from_branch_name"
    /\ self = Rebaser("", "my_commit", "my_remote", "000", TRUE, 0, "unknown")
    /\ initial_retries = 0
    /\ remote_contains = FALSE
    /\ config = Defaults
    /\ remotes = {}
    /\ patches_repo = None
    /\ distgit_branch = <<>>
    /\ parts = <<>>
    /\ existing = {}
    /\ checks = <<>>
    /\ patches_branch = None
    /\ RepoInit

\* release = get_release_from_branch_name(branch_name)
release_from_branch_name ==
    /\ pc = "get_release_from_branch_name"
    /\ release' = get_release_from_branch_name(branch_name)
    /\ pc' = "returned"
    /\ UNCHANGED <<self, initial_retries, depth, log, twin, logged, attempts,
                   sames, cherries, error, exc, rebase_exceptions, waited,
                   git, external_pushes, initial_tip, remote_contains,
                   resolver, caller>>

ReleaseSpec == ReleaseInit /\ [][release_from_branch_name]_vars

CountOp(calls, op) ==
    IF calls = <<>> THEN 0
    ELSE (IF Head(calls).op = op THEN 1 ELSE 0) + CountOp(Tail(calls), op)

IsPush(call) == call.op = "git.push"
Pushes == SelectSeq(log, IsPush)
LastArg(call) == call.args[Len(call.args)]
IsTagPush(call) == IsPush(call) /\ LastArg(call) = self.tag_name
IsBranchPush(call) == IsPush(call) /\ LastArg(call) = self.branch

AllChanged == \A i \in 1..Len(sames) : ~sames[i]
LastSame == sames[Len(sames)]
Retries == CountOp(log, "time.sleep")

\* ------------------------------------------------------------------ claims
\* C1: one call of rebase_and_update_remote on a Rebaser constructed with
\* max_retries = N performs at most N+1 calls of perform_rebase, whatever the
\* remote does; max_retries never increases, has dropped by exactly 1 for
\* each retry made so far, and never becomes negative.
C1_RetryBound ==
    /\ [](/\ attempts <= initial_retries + 1
          /\ attempts <= Retries + 1
          /\ self.max_retries = initial_retries - Retries
          /\ self.max_retries >= 0)
    /\ [][\/ self.max_retries' = self.max_retries
          \/ /\ self.max_retries' = self.max_retries - 1
             /\ Retries' = Retries + 1]_vars

C1_Witness ==
    /\ pc = "done"
    /\ initial_retries = 2
    /\ attempts = 3
    /\ self.max_retries = 0

\* C2: when commit.same reports a changed remote on every attempt, a job with
\* max_retries = N makes exactly N+1 attempts: 1+N tag.create, 2+2N
\* remote.fetch, N tag.delete, no push, and it returns normally.
C2_StopAfterRetries ==
    /\ (AllChanged /\ Len(sames) = initial_retries + 1) =>
          /\ pc \in {"return", "done"}
          /\ error = "none"
          /\ attempts = initial_retries + 1
          /\ CountOp(log, "tag.create") = 1 + initial_retries
          /\ CountOp(log, "remote.fetch") = 2 + 2 * initial_retries
          /\ CountOp(log, "tag.delete") = initial_retries
          /\ Pushes = <<>>
    /\ (AllChanged /\ pc = "done") => Len(sames) = initial_retries + 1

C2_Witness ==
    /\ pc = "done"
    /\ AllChanged
    /\ initial_retries = 2
    /\ CountOp(log, "tag.create") = 3
    /\ CountOp(log, "remote.fetch") = 6
    /\ CountOp(log, "tag.delete") = 2

\* C3: git.push is issued only in an attempt whose comparison found the
\* safety tag's commit equal to remote/branch as read by the second fetch; an
\* attempt that found them different issues no push.
C3_PushOnlyWhenUnchanged ==
    /\ pc \in {"push_tag", "push_branch"} =>
          /\ tag # NoCommit
          /\ tag = tracking
          /\ log[Len(log)].op \in {"branch.cherry_on_head_only", "git.push"}
    /\ Pushes # <<>> => (sames # <<>> /\ LastSame)
    /\ (sames # <<>> /\ ~LastSame) => Pushes = <<>>

C3_Witness ==
    /\ pc = "push_branch"
    /\ Len(sames) = 2
    /\ Len(Pushes) = 1

C4_WitnessNothingToPublish ==
    /\ pc = "done"
    /\ sames = <<TRUE>>
    /\ cherries = <<FALSE>>

\* the dry-run flag removed from one argument of git.push
DropDryRunFlag(arg) ==
    CASE arg = "-n" -> <<>>
      [] arg = "-nf" -> <<"-f">>
      [] OTHER -> <<arg>>

RECURSIVE WithoutDryRun(_)
WithoutDryRun(args) ==
    IF args = <<>> THEN <<>>
    ELSE DropDryRunFlag(Head(args)) \o WithoutDryRun(Tail(args))

WithoutDryRunCalls(calls) ==
    [i \in 1..Len(calls) |->
        Call(calls[i].op, WithoutDryRun(calls[i].args))]

TagPushed == \E i \in 1..Len(log) : IsTagPush(log[i])
LastCherry == cherries[Len(cherries)]
TagExistsByLog ==
    CountOp(log, "tag.create") > CountOp(log, "tag.delete")

\* C5 (as stated): on every exit of the job the safety tag of the current
\* attempt is either deleted or is the one being pushed; it is never left
\* dangling on an exit path that does not push it.
C5_NoDanglingTag ==
    pc \in {"done", "raised"} => (tag = NoCommit \/ TagPushed)

\* C5 (amended): on a publish the safety tag is the one that was pushed and it
\* is kept locally; on nothing to publish it is deleted; when the retries are
\* exhausted, and when an error propagates while the tag exists, the tag of
\* the current attempt is left in place and no deletion is issued for it.
C5_TagOnExit ==
    /\ pc = "done" =>
          /\ sames # <<>>
          /\ IF ~LastSame
             THEN tag # NoCommit /\ ~TagPushed
             ELSE /\ cherries # <<>>
                  /\ IF LastCherry
                     THEN tag # NoCommit /\ TagPushed
                     ELSE tag = NoCommit /\ ~TagPushed
    /\ pc = "raised" =>
          /\ tag # NoCommit <=>
                CASE error = "tag.create" -> FALSE
                  [] error = "tag.delete" -> TRUE
                  [] OTHER -> TagExistsByLog
          /\ (tag # NoCommit /\ error # "tag.delete") =>
                log[Len(log)].op # "tag.delete"
          /\ TagPushed => error = "git.push"

C5_Witness ==
    /\ pc = "raised"
    /\ error = "RebaseException"
    /\ tag # NoCommit
    /\ ~TagPushed

\* C6: when the remote changed during the rebase and max_retries is 0, the
\* job logs a warning and returns normally without any push; the local branch
\* keeps the last rebase result and the safety tag is left in place, neither
\* deleted nor pushed.
C6_RetriesExhausted ==
    (sames # <<>> /\ ~LastSame /\ Len(sames) = initial_retries + 1) =>
        /\ pc \in {"return", "done"}
        /\ error = "none"
        /\ self.max_retries = 0
        /\ logged[Len(logged)] =
              [level |-> "warning", msg |-> "Remote changed multiple times"]
        /\ Pushes = <<>>
        /\ log[Len(log)].op = "commit.same"
        /\ tag # NoCommit
        /\ tag # tracking
        /\ local_branch \in {tag, Rebased(tag)}
        /\ ~rebasing

C6_Witness ==
    /\ pc = "done"
    /\ initial_retries = 1
    /\ sames = <<FALSE, FALSE>>
    /\ local_branch = Rebased(tag)
    /\ tag # NoCommit

\* C7: whenever the branch is pushed, a push of the safety tag was issued
\* immediately before it as a separate call: tag push then branch push, never
\* combined and never reordered, in dev mode and in real mode.
C7_TagPushThenBranchPush ==
    \A i \in 1..Len(log) :
        /\ IsBranchPush(log[i]) =>
              /\ i > 1
              /\ IsTagPush(log[i - 1])
        /\ IsPush(log[i]) =>
              /\ ~(Contains(log[i].args, self.tag_name)
                     /\ Contains(log[i].args, self.branch))
              /\ IsTagPush(log[i]) => (i = Len(log) \/ IsBranchPush(log[i + 1]))

C7_Witness ==
    /\ Len(Pushes) = 2
    /\ IsBranchPush(log[Len(log)])
    /\ IsTagPush(log[Len(log) - 1])
    /\ ~self.dev_mode

C7_WitnessDevMode ==
    /\ Len(Pushes) = 2
    /\ IsBranchPush(log[Len(log)])
    /\ self.dev_mode

\* C8: the branch push always requests force and follow-tags: its arguments
\* are ('-nf', '--follow-tags', remote, branch) in dev mode and
\* ('-f', '--follow-tags', remote, branch) in real mode; the tag push is
\* ('-n', remote, tag_name), respectively (remote, tag_name).
C8_PushArguments ==
    \A i \in 1..Len(log) :
        /\ IsBranchPush(log[i]) =>
              log[i].args =
                 IF self.dev_mode
                 THEN <<"-nf", "--follow-tags", self.remote, self.branch>>
                 ELSE <<"-f", "--follow-tags", self.remote, self.branch>>
        /\ IsTagPush(log[i]) =>
              log[i].args =
                 IF self.dev_mode
                 THEN <<"-n", self.remote, self.tag_name>>
                 ELSE <<self.remote, self.tag_name>>

\* C9: for the same inputs and the same collaborator behaviour, the run with
\* dev_mode=True and the run with dev_mode=False issue the same sequence of
\* operations and the same number, order and arguments of push calls, apart
\* from the dry-run flag (-n) that every push of the dev-mode run carries.
C9_DryRunEquivalence ==
    LET dev  == IF self.dev_mode THEN log ELSE twin
        real == IF self.dev_mode THEN twin ELSE log
    IN  /\ Len(dev) = Len(real)
        /\ WithoutDryRunCalls(dev) = real
        /\ \A i \in 1..Len(dev) :
              /\ dev[i].op = real[i].op
              /\ IsPush(dev[i]) => (DryRun(dev[i].args) /\ ~DryRun(real[i].args))
              /\ ~IsPush(dev[i]) => dev[i] = real[i]

C9_Witness ==
    /\ pc = "done"
    /\ Len(Pushes) = 2
    /\ Len(SelectSeq(twin, IsPush)) = 2
    /\ twin # log

\* C10: with dev_mode enabled the job never mutates the remote: no step of
\* the job changes the remote branch tip or the remote's tags, so with no
\* other actor pushing they are after the job what they were before it, while
\* the local branch holds the rebase result.
C10_DevModeLeavesRemote ==
    /\ [][(self.dev_mode /\ external_pushes' = external_pushes) =>
             (remote_tip' = remote_tip /\ remote_tags' = remote_tags)]_vars
    /\ [](self.dev_mode => remote_tags = {})
    /\ []((self.dev_mode /\ external_pushes = 0) => remote_tip = initial_tip)
    /\ []((self.dev_mode /\ pc = "done" /\ Pushes # <<>>) =>
             (local_branch = Rebased(tag) /\ local_branch # remote_tip))

C10_Witness ==
    /\ pc = "done"
    /\ self.dev_mode
    /\ Len(Pushes) = 2
    /\ external_pushes = 0
    /\ local_branch = Rebased(initial_tip)
    /\ local_branch # initial_tip
    /\ remote_tip = initial_tip
    /\ remote_tags = {}

\* C11: with dev_mode off and no concurrent remote change, for a branch that
\* is behind the target commit, one run leaves the local branch at the rebase
\* of the remote's patches onto the target commit and the remote branch tip
\* equal to the local branch tip (the safety tag is published with it).
C11_RebaseAndPublish ==
    (/\ pc = "done"
     /\ ~self.dev_mode
     /\ external_pushes = 0
     /\ local_branch # initial_tip) =>
        /\ attempts = 1
        /\ local_branch = Rebased(initial_tip)
        /\ remote_tip = local_branch
        /\ tracking = local_branch
        /\ remote_tags = {<<self.tag_name, initial_tip>>}
        /\ tag = initial_tip

C11_Witness ==
    /\ pc = "done"
    /\ ~self.dev_mode
    /\ external_pushes = 0
    /\ rebase_exceptions = 0
    /\ local_branch = Rebased(initial_tip)
    /\ remote_tip = local_branch

\* C12: when the remote branch gains a commit during the first attempt's
\* rebase and is stable afterwards, perform_rebase runs exactly twice, the
\* second attempt starts from the re-fetched remote tip (the local branch is
\* reset to it), and the published result is the rebase of that tip, the
\* remote tip being equal to the local result.
C12_RetryFromNewTip ==
    /\ (/\ Len(sames) = 1
        /\ ~sames[1]
        /\ external_pushes = 1
        /\ pc \in {"tag_create", "perform_rebase"}) =>
           /\ local_branch = remote_tip
           /\ remote_tip = 1
           /\ tracking = remote_tip
    /\ (/\ pc = "done"
        /\ ~self.dev_mode
        /\ external_pushes = 1
        /\ sames = <<FALSE, TRUE>>) =>
           /\ attempts = 2
           /\ local_branch \in {1, Rebased(1)}
           /\ local_branch # 1 =>
                 /\ tag = 1
                 /\ remote_tip = local_branch
                 /\ Len(Pushes) = 2

C12_Witness ==
    /\ pc = "done"
    /\ ~self.dev_mode
    /\ external_pushes = 1
    /\ sames = <<FALSE, TRUE>>
    /\ attempts = 2
    /\ local_branch = Rebased(1)
    /\ remote_tip = local_branch

\* C13: every invocation of rebase_and_update_remote terminates (publish,
\* nothing to publish, retries exhausted or a propagated error) for every
\* behaviour of the remote and every sequence of successes and failures of
\* rebase_to_hash and of the automated recovery.
C13_Terminates == <>(pc \in {"done", "raised"})

\* C14: when rebase_to_hash fails with a RebaseException whose message does
\* not contain '.gitreview', perform_rebase performs no skip and no
\* regeneration, calls abort_rebase, and then raises that same
\* RebaseException unchanged.
C14_OtherExceptionAborts ==
    /\ []((pc = "abort_rebase" /\ exc = OtherMessage) =>
             (log[Len(log)].op = "branch.rebase_to_hash" /\ rebasing))
    /\ []((pc = "raised" /\ error = "RebaseException" /\ exc = OtherMessage) =>
             /\ Len(log) >= 2
             /\ log[Len(log)].op = "branch.abort_rebase"
             /\ log[Len(log) - 1].op = "branch.rebase_to_hash"
             /\ ~rebasing)
    /\ [][(pc = "try_automated_rebase_fix" /\ exc = OtherMessage /\ pc' # pc) =>
             (pc' = "abort_rebase" /\ log' = log /\ exc' = exc
                /\ local_branch' = local_branch)]_vars
    /\ [][(pc = "abort_rebase" /\ pc' # pc) =>
             /\ exc' = exc
             /\ pc' = "raised"
             /\ error' \in {"RebaseException", "branch.abort_rebase"}
             /\ log' = Append(log, Call("branch.abort_rebase", <<>>))]_vars

C14_Witness ==
    /\ pc = "raised"
    /\ error = "RebaseException"
    /\ exc = OtherMessage
    /\ rebase_exceptions = 1
    /\ log[Len(log)].op = "branch.abort_rebase"

\* C15: when rebase_to_hash fails with a RebaseException whose message
\* contains '.gitreview', the recovery issues git rebase --skip and then
\* regenerates and commits the .gitreview file, in that order; when the rebase
\* then completes perform_rebase returns normally and abort_rebase is not
\* called.
C15_GitreviewRecovered ==
    /\ [][(/\ pc = "try_automated_rebase_fix"
           /\ exc = GitreviewMessage
           /\ pc' = "rebase_to_hash") =>
             /\ Len(log') = Len(log) + 3
             /\ SubSeq(log', 1, Len(log)) = log
             /\ log'[Len(log) + 1] = Call("git.rebase", <<"--skip">>)
             /\ log'[Len(log) + 2].op = "generate_gitreview"
             /\ log'[Len(log) + 3].op = "commit.commit"
             /\ ~rebasing']_vars
    /\ []((/\ pc = "fetch_again"
           /\ Len(log) >= 5
           /\ log[Len(log) - 1].op = "commit.commit") =>
             /\ log[Len(log)].op = "branch.rebase_to_hash"
             /\ log[Len(log) - 2].op = "generate_gitreview"
             /\ log[Len(log) - 3] = Call("git.rebase", <<"--skip">>)
             /\ log[Len(log) - 4].op = "branch.rebase_to_hash"
             /\ error = "none"
             /\ ~rebasing
             /\ local_branch = Rebased(tag))
    /\ [](CountOp(log, "branch.abort_rebase") > 0 => pc = "raised")

C15_Witness ==
    /\ pc = "fetch_again"
    /\ rebase_exceptions = 1
    /\ exc = GitreviewMessage
    /\ log[Len(log) - 1].op = "commit.commit"
    /\ CountOp(log, "branch.abort_rebase") = 0

\* C16: a failure of fetch, branch create/reset, tag create/delete, push or
\* an unrecoverable rebase ends the job at once with that error, in whichever
\* attempt it occurs: no retry, no decrement of max_retries for it, no later
\* operation; no push follows a failed rebase and no branch push follows a
\* failed tag push (a rebase failing in the second attempt: 3 fetches, 2 tag
\* creations, 1 tag deletion, 0 pushes).
C16_FailureEndsJob ==
    /\ [](error # "none" <=> pc = "raised")
    /\ [](pc = "raised" =>
             log[Len(log)].op = IF error = "RebaseException"
                                THEN "branch.abort_rebase" ELSE error)
    /\ [][pc = "raised" => UNCHANGED vars]_vars
    /\ [][(pc # "raised" /\ pc' = "raised") =>
             /\ self' = self
             /\ waited' = waited
             /\ depth' = depth
             /\ Len(log') = Len(log) + 1
             /\ SubSeq(log', 1, Len(log)) = log]_vars
    /\ []((pc = "raised" /\ error \in {"RebaseException",
                                       "branch.rebase_to_hash",
                                       "branch.abort_rebase"}) =>
             Pushes = <<>>)
    /\ []((pc = "raised" /\ error = "git.push" /\ Len(Pushes) = 1) =>
             IsTagPush(log[Len(log)]))
    /\ []((pc = "raised" /\ error = "RebaseException" /\ attempts = 2) =>
             /\ CountOp(log, "remote.fetch") = 3
             /\ CountOp(log, "tag.create") = 2
             /\ CountOp(log, "tag.delete") = 1
             /\ Pushes = <<>>)

C16_Witness ==
    /\ pc = "raised"
    /\ error = "RebaseException"
    /\ attempts = 2
    /\ sames = <<FALSE>>
    /\ CountOp(log, "remote.fetch") = 3

C18_PushWhenCommitMissing ==
    (cherries # <<>> /\ ~LastCherry /\ pc \in {"return", "done"}) =>
        IF remote_contains THEN Pushes = <<>> ELSE Pushes # <<>>

\* C19 (as stated): the .gitreview file is regenerated and committed on every
\* successful rebase performed by the orchestrator, as well as after the
\* automated-recovery path.
C19_GitreviewOnEveryRebase ==
    pc = "fetch_again" =>
        /\ CountOp(log, "generate_gitreview") >= attempts
        /\ CountOp(log, "commit.commit") >= attempts

\* C19 (amended): the .gitreview file is regenerated and committed only on the
\* automated-recovery path, once for each successful recovery and right after
\* git rebase --skip; a rebase_to_hash call, successful or not, regenerates
\* nothing.
C19_GitreviewOnlyOnRecovery ==
    /\ [](\A i \in 1..Len(log) :
             /\ log[i].op = "generate_gitreview" =>
                   /\ i > 1
                   /\ log[i - 1] = Call("git.rebase", <<"--skip">>)
             /\ log[i].op = "commit.commit" =>
                   /\ i > 1
                   /\ log[i - 1].op = "generate_gitreview")
    /\ [](rebase_exceptions = 0 => CountOp(log, "generate_gitreview") = 0)
    /\ [][(pc = "try_automated_rebase_fix" /\ pc' = "rebase_to_hash") =>
             /\ CountOp(log', "generate_gitreview") =
                   CountOp(log, "generate_gitreview") + 1
             /\ CountOp(log', "commit.commit") =
                   CountOp(log, "commit.commit") + 1]_vars
    /\ [][pc # "try_automated_rebase_fix" =>
             /\ CountOp(log', "generate_gitreview") =
                   CountOp(log, "generate_gitreview")
             /\ CountOp(log', "commit.commit") =
                   CountOp(log, "commit.commit")]_vars

C19_Witness ==
    /\ pc = "done"
    /\ attempts = 2
    /\ rebase_exceptions = 1
    /\ CountOp(log, "branch.rebase_to_hash") = 3
    /\ CountOp(log, "generate_gitreview") = 1
    /\ CountOp(log, "commit.commit") = 1

\* C20: find_patches_branch, for every identifier with at least one segment
\* and every set of existing remote branches, tests the candidates built from
\* the first k segments for k = n, n-1, ..., 1 in that order, returns the first
\* candidate that exists on the remote, returns None after all prefixes
\* failed, and makes at most one existence check per segment.
C20_LongestPrefixFirst ==
    LET n == Len(distgit_branch)
    IN  /\ Len(checks) <= n
        /\ \A i \in 1..Len(checks) :
              checks[i] = Join(SubSeq(distgit_branch, 1, n - i + 1))
                             \o Suffix(distgit_branch)
        /\ \A i \in 1..(Len(checks) - 1) : checks[i] \notin existing
        /\ pc = "resolved" =>
              IF patches_branch # None
              THEN /\ checks # <<>>
                   /\ patches_branch = checks[Len(checks)]
                   /\ patches_branch \in existing
              ELSE /\ Len(checks) = n
                   /\ \A i \in 1..n : checks[i] \notin existing

C20_Witness ==
    /\ pc = "resolved"
    /\ Len(distgit_branch) = 3
    /\ distgit_branch[1] # distgit_branch[2]
    /\ Len(checks) = 2
    /\ patches_branch = checks[2]
    /\ checks[1] \notin existing

C20_WitnessNotFound ==
    /\ pc = "resolved"
    /\ Len(distgit_branch) = 3
    /\ patches_branch = None
    /\ existing # {}
    /\ Len(checks) = 3


\* the suffix that the original identifier calls for
OriginalSuffix ==
    IF \E i \in 1..Len(distgit_branch) :
          distgit_branch[i] \in {"trunk", "mytrunk"}
    THEN "-trunk-patches" ELSE "-patches"

\* the first k segments of the original identifier with that suffix
Named(k) == Join(SubSeq(distgit_branch, 1, k)) \o OriginalSuffix

\* C21: in find_patches_branch every candidate of one resolution carries the
\* same suffix: '-trunk-patches' iff the original identifier contains the
\* substring 'trunk', else '-patches', however many segments have been dropped
\* and whichever prefix matches.
C21_SuffixFromIdentifier ==
    /\ [](\A i \in 1..Len(checks) :
             \E k \in 1..Len(distgit_branch) : checks[i] = Named(k))
    /\ [](patches_branch # None =>
             \E k \in 1..Len(distgit_branch) : patches_branch = Named(k))
    /\ [][(pc = "find_patches_branch" /\ parts # <<>>) =>
             /\ checks' = Append(checks, Join(parts) \o OriginalSuffix)
             /\ distgit_branch' = distgit_branch]_vars

C21_Witness ==
    /\ pc = "resolved"
    /\ distgit_branch = <<"rhos", "17.0", "trunk">>
    /\ checks = <<"rhos-17.0-trunk-trunk-patches", "rhos-17.0-trunk-patches",
                  "rhos-trunk-patches">>
    /\ patches_branch = "rhos-trunk-patches"

C21_WitnessSubstring ==
    /\ pc = "resolved"
    /\ distgit_branch = <<"rhos", "mytrunk">>
    /\ patches_branch = "rhos-trunk-patches"

C21_WitnessNoTrunk ==
    /\ pc = "resolved"
    /\ distgit_branch = <<"rhos", "17.0", "rhos">>
    /\ patches_branch = "rhos-patches"

\* C22 (as stated): the safety tag name is
\* 'private-rebaser-<release>-<timestamp>-previous' when a release label is
\* supplied at construction and 'private-rebaser-<timestamp>-previous' when
\* none is supplied.
C22_TagNameFormat ==
    self.tag_name =
        IF release = None
        THEN "private-rebaser-" \o self.timestamp \o "-previous"
        ELSE "private-rebaser-" \o release \o "-" \o self.timestamp
                \o "-previous"

\* C22 (amended): the safety tag name is always
\* 'private-rebaser-<release>-<timestamp>-previous', where <release> is the
\* label supplied at construction and the word 'unknown' when none is
\* supplied; the tag is created, deleted and pushed under that name.
C22_TagNameWithDefault ==
    /\ self.tag_name =
          IF release = None
          THEN "private-rebaser-unknown-" \o self.timestamp \o "-previous"
          ELSE "private-rebaser-" \o release \o "-" \o self.timestamp
                  \o "-previous"
    /\ \A i \in 1..Len(log) :
          /\ log[i].op \in {"tag.create", "tag.delete", "commit.same"} =>
                log[i].args[1] = self.tag_name
          /\ (IsPush(log[i]) /\ ~IsBranchPush(log[i])) =>
                LastArg(log[i]) = self.tag_name

C22_Witness ==
    /\ release = None
    /\ ~self.dev_mode
    /\ pc = "done"
    /\ Len(Pushes) = 2
    /\ Pushes[1].args = <<"my_remote", "private-rebaser-unknown-000-previous">>

C22_WitnessSupplied ==
    /\ release = "16.1"
    /\ pc = "done"
    /\ Len(Pushes) = 2
    /\ LastArg(Pushes[1]) = "private-rebaser-16.1-000-previous"

\* find_patches_branch returned None to main
Unresolved ==
    /\ patches_branch = None
    /\ checks # <<>>
    /\ pc # "find_patches_branch"

IsForcePush(call) == IsPush(call) /\ call.args[1] \in {"-f", "-nf"}

\* C23: in main, when no patches branch is resolved, no Rebaser is run (no
\* rebase, no safety tag, no force-push): create_patches_branch is called iff
\* the create_patches_branch setting is true, a failed creation raises an
\* error, and main returns without rebasing in either case.
C23_MissingBranchNoRebase ==
    /\ Unresolved =>
          /\ pc \in {"resolved", "create_patches_branch", "create_branch",
                     "checkout", "rebuild", "push_created", "done", "raised"}
          /\ self.branch = ""
          /\ attempts = 0
          /\ tag = NoCommit
          /\ CountOp(log, "branch.rebase_to_hash") = 0
          /\ CountOp(log, "tag.create") = 0
          /\ CountOp(log, "remote.fetch") = 0
          /\ \A i \in 1..Len(log) : ~IsForcePush(log[i])
    /\ (Unresolved /\ pc \in {"done", "raised"}) =>
          /\ CountOp(log, "create_patches_branch") =
                IF config.create_patches_branch THEN 1 ELSE 0
          /\ (pc = "raised") => config.create_patches_branch
    /\ (Unresolved /\ logged # <<>> /\ logged[Len(logged)].level = "error") =>
          /\ pc = "raised"
          /\ error = "Could not create -patches branch"
    /\ (Unresolved /\ pc = "done" /\ config.create_patches_branch) =>
          /\ branch_name = EnvPatchesBranch
          /\ Len(Pushes) = 1
          /\ log[Len(log)] = Pushes[1]

C23_Witness ==
    /\ Unresolved
    /\ pc = "done"
    /\ config.create_patches_branch
    /\ ~config.dev_mode
    /\ CountOp(log, "create_patches_branch") = 1
    /\ "test-patches" \in existing

C23_WitnessNoCreate ==
    /\ Unresolved
    /\ pc = "done"
    /\ ~config.create_patches_branch
    /\ CountOp(log, "remote.fetch_all") = 1

C23_WitnessFailed ==
    /\ Unresolved
    /\ pc = "raised"
    /\ error = "Could not create -patches branch"
    /\ CountOp(log, "branch.create") = 1

\* C24: in main, when a remote of the configured name already exists with a
\* URL other than the patches repository URL, the stale remote is removed by
\* exactly one remote.remove, so that from the fetch on the remote of that
\* name points at the current patches repository.
C24_StaleRemoteRemoved ==
    CountOp(log, "remote.fetch_all") > 0 =>
        /\ <<config.remote_name, patches_repo>> \in remotes
        /\ \A r \in remotes :
              r[1] = config.remote_name => r[2] = patches_repo
        /\ CountOp(log, "remote.remove") <= 1

\* C25: get_release_from_branch_name returns all segments between the first
\* '-'-separated segment and the trailing '-patches' or '-trunk-patches'
\* suffix, joined by '-' (rhos-18.0-foo-trunk-patches gives 18.0-foo), and
\* 'Unknown' for a name that has no such release part or no patches suffix
\* (my_branch, rhos-10.0).
C25_ReleaseBetween ==
    pc = "returned" =>
        LET n == Len(branch_name)
            cut == IF n >= 2 /\ branch_name[n] = "patches"
                   THEN IF branch_name[n - 1] = "trunk" THEN 2 ELSE 1
                   ELSE 0
            middle == SubSeq(branch_name, 2, n - cut)
        IN  release = IF cut = 0 \/ middle = <<>> THEN "Unknown"
                      ELSE Join(middle)

\* the cases in which the code and the statement agree
C25_Agreement ==
    /\ pc = "returned"
    /\ branch_name = <<"rhos", "18.0", "trunk", "patches">>
    /\ release = "18.0"

\* C26: with another actor pushing to the remote branch at any point, also
\* between the job's second fetch and its force-push, whenever the job
\* force-pushes the branch in real mode the remote tip it overwrites is the
\* safety tag's commit, so that no concurrently pushed commit is lost.
C26_OverwritesOnlyTagCommit ==
    [][(/\ pc = "push_branch"
        /\ pc' = "return"
        /\ ~self.dev_mode) => remote_tip = tag]_vars

\* the runs in which the statement does hold: nobody pushed in the window
C26_QuietWindow ==
    /\ pc = "done"
    /\ ~self.dev_mode
    /\ Len(Pushes) = 2
    /\ remote_tip = Rebased(tag)
    /\ external_pushes = 1

\* C27: each attempt issues its operations in the fixed order fetch,
\* create-or-reset of the local branch to remote/branch, creation of the
\* safety tag at remote/branch, rebase, second fetch, comparison of the tag
\* with remote/branch; the tag therefore records the remote tip seen by the
\* first fetch, which is the commit the local branch was reset to.
C27_AttemptOrder ==
    /\ \A i \in 1..Len(log) :
          /\ log[i].op = "remote.fetch" =>
                \/ i = 1
                \/ log[i - 1].op \in {"tag.delete", "branch.rebase_to_hash"}
          /\ log[i].op = "branch.create" =>
                /\ i > 1
                /\ log[i - 1].op = "remote.fetch"
                /\ (i = 2 \/ log[i - 2].op = "tag.delete")
          /\ log[i].op = "tag.create" =>
                /\ i > 1
                /\ log[i - 1].op = "branch.create"
          /\ log[i].op = "branch.rebase_to_hash" =>
                /\ i > 1
                /\ log[i - 1].op \in {"tag.create", "commit.commit"}
          /\ log[i].op = "commit.same" =>
                /\ i > 2
                /\ log[i - 1].op = "remote.fetch"
                /\ log[i - 2].op = "branch.rebase_to_hash"
    /\ CountOp(log, "tag.create") <= CountOp(log, "branch.create")
    /\ CountOp(log, "commit.same") <= CountOp(log, "tag.create")
    /\ pc = "tag_create" => local_branch = tracking
    /\ pc = "perform_rebase" =>
          /\ tag = tracking
          /\ local_branch = tag
          /\ log[Len(log)].op = "tag.create"
    /\ pc \in {"rebase_to_hash", "try_automated_rebase_fix", "abort_rebase",
               "fetch_again"} =>
          /\ tag # NoCommit
          /\ local_branch \in {tag, Rebased(tag)}

C27_Witness ==
    /\ pc = "perform_rebase"
    /\ attempts = 1
    /\ tag = tracking
    /\ local_branch = tag
    /\ remote_tip # tag

C28_WitnessNothingToPublish ==
    /\ pc = "done"
    /\ sames = <<FALSE, TRUE>>
    /\ cherries = <<FALSE>>
    /\ CountOp(log, "tag.delete") = 2

\* C29: at most one safety tag of the job exists at any time: tag.create is
\* never issued while the tag created by an earlier attempt still exists,
\* because every retry deletes the stale tag before the next attempt creates
\* it.
C29_OneSafetyTag ==
    /\ [](pc \in {"fetch", "branch_create", "tag_create"} => tag = NoCommit)
    /\ [](CountOp(log, "tag.create") <= CountOp(log, "tag.delete") + 1)
    /\ [](\A i, j \in 1..Len(log) :
             (i < j /\ log[i].op = "tag.create" /\ log[j].op = "tag.create") =>
                \E k \in (i + 1)..(j - 1) : log[k].op = "tag.delete")
    /\ [][(tag' # tag /\ tag' # NoCommit) => tag = NoCommit]_vars

C29_Witness ==
    /\ pc = "perform_rebase"
    /\ attempts = 2
    /\ tag # NoCommit
    /\ CountOp(log, "tag.create") = 3
    /\ CountOp(log, "tag.delete") = 2

\* C30: when the automated recovery itself fails (git rebase --skip or the
\* regeneration raises), perform_rebase calls abort_rebase and propagates the
\* rebase failure; the failure ends the job, starts no retry and does not
\* consume the retry counter.
C30_RecoveryFailureIsFatal ==
    /\ []((logged # <<>> /\ logged[Len(logged)] =
              [level |-> "error", msg |-> "Failed to fix rebase error"]) =>
             /\ pc = "abort_rebase"
             /\ exc = GitreviewMessage
             /\ rebasing
             /\ log[Len(log)].op \in {"git.rebase", "commit.commit"})
    /\ [][(pc = "try_automated_rebase_fix" /\ pc' = "abort_rebase") =>
             /\ self' = self
             /\ attempts' = attempts
             /\ waited' = waited
             /\ local_branch' = local_branch]_vars
    /\ [][(pc = "abort_rebase" /\ pc' # pc) =>
             /\ log' = Append(log, Call("branch.abort_rebase", <<>>))
             /\ pc' = "raised"
             /\ error' \in {"RebaseException", "branch.abort_rebase"}
             /\ self' = self
             /\ attempts' = attempts
             /\ depth' = depth]_vars
    /\ []((pc = "raised" /\ error = "RebaseException") =>
             /\ log[Len(log)].op = "branch.abort_rebase"
             /\ self.max_retries = initial_retries - Retries
             /\ attempts = Retries + 1
             /\ Pushes = <<>>)
    /\ [][pc = "raised" => (pc' = "raised" /\ log' = log /\ self' = self)]_vars

C30_Witness ==
    /\ pc = "raised"
    /\ error = "RebaseException"
    /\ exc = GitreviewMessage
    /\ log[Len(log)].op = "branch.abort_rebase"
    /\ log[Len(log) - 1].op = "git.rebase"
    /\ initial_retries = 2
    /\ self.max_retries = 1
    /\ attempts = 2

C30_WitnessRegenerationFails ==
    /\ pc = "raised"
    /\ error = "RebaseException"
    /\ exc = GitreviewMessage
    /\ log[Len(log) - 1].op = "commit.commit"

\* C31: automated recovery is attempted once per conflicting rebase step:
\* each RebaseException from rebase_to_hash leads to at most one
\* try_automated_rebase_fix, after a successful fix perform_rebase calls
\* rebase_to_hash again, and perform_rebase returns normally only after a
\* rebase_to_hash call that completed without a RebaseException.
C31_OneFixPerException ==
    /\ [][(pc' = "try_automated_rebase_fix" /\ pc # pc') =>
             /\ pc = "rebase_to_hash"
             /\ rebase_exceptions' = rebase_exceptions + 1
             /\ log' = Append(log, Call("branch.rebase_to_hash",
                                        <<self.branch, self.commit>>))]_vars
    /\ [][(pc = "try_automated_rebase_fix" /\ pc' # pc) =>
             /\ rebase_exceptions' = rebase_exceptions
             /\ exc' = exc
             /\ pc' \in {"rebase_to_hash", "abort_rebase"}
             /\ pc' = "rebase_to_hash" => (exc = GitreviewMessage /\ ~rebasing')
             /\ CountOp(log', "git.rebase") <= CountOp(log, "git.rebase") + 1]_vars
    /\ [][(pc = "rebase_to_hash" /\ pc' # pc) =>
             log' = Append(log, Call("branch.rebase_to_hash",
                                     <<self.branch, self.commit>>))]_vars
    /\ [][(pc' = "fetch_again" /\ pc # pc') =>
             /\ pc = "rebase_to_hash"
             /\ rebase_exceptions' = rebase_exceptions
             /\ ~rebasing']_vars
    /\ [](CountOp(log, "git.rebase") <= rebase_exceptions)
    /\ [](CountOp(log, "branch.rebase_to_hash") >= rebase_exceptions)
    /\ [](\A i \in 1..Len(log) :
             /\ log[i].op = "git.rebase" =>
                   /\ i > 1
                   /\ log[i - 1].op = "branch.rebase_to_hash"
             /\ (log[i].op = "commit.commit" /\ i < Len(log)) =>
                   log[i + 1].op \in {"branch.rebase_to_hash",
                                      "branch.abort_rebase"}
             /\ (log[i].op = "remote.fetch" /\ i > 1
                   /\ log[i - 1].op # "tag.delete") =>
                   log[i - 1].op = "branch.rebase_to_hash")

C31_Witness ==
    /\ pc = "fetch_again"
    /\ attempts = 1
    /\ rebase_exceptions = 2
    /\ CountOp(log, "git.rebase") = 2
    /\ CountOp(log, "branch.rebase_to_hash") = 3
    /\ ~rebasing

\* C32: across all attempts of one job the identity fields (repo, branch, target
\* commit, remote, remote_branch, timestamp, safety tag name, dev_mode) are
\* unchanged; the retry path changes only max_retries, so that every attempt
\* rebases the same branch onto the same commit and uses the same tag name.
C32_IdentityUnchanged ==
    /\ [][/\ self'.repo = self.repo
          /\ self'.branch = self.branch
          /\ self'.commit = self.commit
          /\ self'.remote = self.remote
          /\ self'.remote_branch = self.remote_branch
          /\ self'.timestamp = self.timestamp
          /\ self'.tag_name = self.tag_name
          /\ self'.dev_mode = self.dev_mode
          /\ (self' # self => (pc = "sleep" /\ pc' = "tag_delete"))]_vars
    /\ [](/\ self.branch = "my_branch"
          /\ self.commit = "my_commit"
          /\ self.remote = "my_remote"
          /\ self.remote_branch = "my_remote/my_branch"
          /\ self.tag_name = TagName(DefaultRelease(release), "000"))
    /\ [](\A i \in 1..Len(log) :
             /\ log[i].op = "branch.rebase_to_hash" =>
                   log[i].args = <<"my_branch", "my_commit">>
             /\ log[i].op = "branch.create" =>
                   log[i].args = <<"my_branch", "my_remote/my_branch">>
             /\ log[i].op = "tag.create" =>
                   log[i].args = <<TagName(DefaultRelease(release), "000"),
                                   "my_remote/my_branch">>
             /\ log[i].op = "tag.delete" =>
                   log[i].args = <<TagName(DefaultRelease(release), "000")>>
             /\ log[i].op = "remote.fetch" => log[i].args = <<"my_remote">>)

C32_Witness ==
    /\ pc = "done"
    /\ initial_retries = 2
    /\ self.max_retries = 0
    /\ attempts = 3
    /\ CountOp(log, "branch.rebase_to_hash") = 3
    /\ CountOp(log, "tag.create") = 3
    /\ self.tag_name = "private-rebaser-16.1-000-previous"

\* C33: one top-level call of rebase_and_update_remote issues at most one
\* publish (one tag push and one branch push) over all of its retries: after
\* a nested retry has returned, the enclosing attempts perform no further
\* fetch, comparison, tag operation or push.
C33_OnePublish ==
    /\ [](/\ Len(Pushes) <= 2
          /\ Len(SelectSeq(log, IsTagPush)) <= 1
          /\ Len(SelectSeq(log, IsBranchPush)) <= 1
          /\ Len(cherries) <= 1
          /\ CountOp(log, "branch.cherry_on_head_only") <= 1)
    /\ [](pc \in {"return", "done"} => depth <= Retries)
    /\ [](pc = "done" => depth = 0)
    /\ [][pc = "return" =>
             /\ pc' \in {"return", "done"}
             /\ depth' <= depth
             /\ log' = log
             /\ self' = self
             /\ tag' = tag
             /\ local_branch' = local_branch
             /\ tracking' = tracking
             /\ remote_tags' = remote_tags]_vars
    /\ [][(pc = "return" /\ depth > 0 /\ UNCHANGED external_pushes) =>
             (pc' = "return" /\ depth' = depth - 1)]_vars

C33_Witness ==
    /\ pc = "done"
    /\ depth = 0
    /\ attempts = 3
    /\ Retries = 2
    /\ Len(Pushes) = 2
    /\ IsBranchPush(log[Len(log)])

\* C34: when update_remote_patches_branch publishes (ahead-check non-empty)
\* it does not delete the local safety tag, in dev mode and in real mode
\* alike: tag.delete is called in update_remote_patches_branch only on the
\* nothing-to-publish path.
C34_PublishKeepsTag ==
    /\ (cherries # <<>> /\ LastCherry) =>
          /\ CountOp(log, "tag.delete") = Retries
          /\ tag # NoCommit
          /\ log[Len(log)].op \in {"branch.cherry_on_head_only", "git.push"}
    /\ \A i \in 1..Len(log) :
          log[i].op = "tag.delete" =>
             /\ i > 1
             /\ log[i - 1].op \in {"time.sleep", "branch.cherry_on_head_only"}
             /\ log[i - 1].op = "branch.cherry_on_head_only" =>
                   (cherries # <<>> /\ ~LastCherry /\ Pushes = <<>>)
    /\ Pushes # <<>> => (tag # NoCommit /\ CountOp(log, "tag.delete") = Retries)

C34_Witness ==
    /\ pc = "done"
    /\ ~self.dev_mode
    /\ cherries = <<TRUE>>
    /\ Len(Pushes) = 2
    /\ tag # NoCommit
    /\ CountOp(log, "tag.delete") = 0

C34_WitnessDevMode ==
    /\ pc = "done"
    /\ self.dev_mode
    /\ cherries = <<TRUE>>
    /\ Len(Pushes) = 2
    /\ tag # NoCommit
    /\ Retries = 1
    /\ CountOp(log, "tag.delete") = 1
=============================================================================
